---------------------------- MODULE Spec2Model ----------------------------
(***************************************************************************)
(* State-machine model of the chat client of talk-to-your-docs:            *)
(*   - Layout.jsx      the chat session (config load, WebSocket handlers,  *)
(*                     message assembly, citation list, send)              *)
(*   - websocket.js    the stand-alone reconnecting socket module          *)
(*   - DocumentList.jsx  the document status poller                        *)
(* Every event handler runs to completion (one action per handler); React  *)
(* state written by a handler is visible to the next handler.  Values that *)
(* a handler reads through a closure are modelled as the values captured   *)
(* when the closure was created.                                           *)
(***************************************************************************)
EXTENDS Integers, Sequences, FiniteSets, TLC

(***************************************************************************)
(* Bounds of the model                                                     *)
(***************************************************************************)
MaxMessages == 3      \* longest message history explored
MaxSources  == 2      \* longest source list explored
MaxNow      == 1      \* Date.now() ranges over 0..MaxNow
MaxSockets  == 3      \* WebSockets websocket.js creates in one run
MaxWsFrames == 2      \* frames sent, and frames received, through websocket.js
MaxInFlight == 2      \* status requests in flight at once
MaxTimers   == 2      \* setInterval timers armed at once
MaxUrlLen   == 8      \* longest document reference, in tokens

(***************************************************************************)
(* Values                                                                  *)
(***************************************************************************)
Null   == "null"      \* JavaScript null / undefined for string-valued slots
NoId   == <<>>        \* aiRespondingMessageId = null
NoConfig == <<>>      \* config = null
IdOf(n) == <<n>>      \* aiRespondingMessageId = n

Fragments == {"a", "b"}
UserTexts == {"q"}
SourceIds == {"d1", "d2"}
SourceUrls == {"u1", "u2"}
Models == {"amazon.nova-pro-v1:0", "other-model"}
SearchMethods == {"opensearch", "contextual_retrieval"}
ConfigData == [websocketUrl |-> "wss://srv", cloudfrontDomain |-> "cdn"]

\* JavaScript truthiness of a string-valued slot: null, undefined and ""
\* are falsy.
Truthy(s) == s # Null /\ s # ""

(***************************************************************************)
(* Inbound frames: the parsed JSON object, one field per path the handler  *)
(* reads.  sources is the "sources" object: present or not, and its        *)
(* entries in Object.entries order.  json says what JSON.parse makes of    *)
(* the payload: an object, the value null, or a SyntaxError ("invalid").   *)
(***************************************************************************)
NoFrame ==
  [json |-> "object",
   type |-> Null, content |-> Null, text |-> Null, outputText |-> Null,
   sourceId |-> Null, sourceUrl |-> Null,
   sources |-> [present |-> FALSE, entries |-> <<>>],
   error |-> Null, message |-> Null]

TextFrames ==
     {[NoFrame EXCEPT !.type = "text", !.content = c] : c \in Fragments \cup {""}}
  \cup {[NoFrame EXCEPT !.text = "a"], [NoFrame EXCEPT !.outputText = "b"]}

CitationFrames ==
     {[NoFrame EXCEPT !.type = "citation", !.sourceId = i, !.sourceUrl = u] :
         i \in SourceIds, u \in SourceUrls}
  \cup {[NoFrame EXCEPT !.type = "citation", !.sourceId = "d1"]}

SourceMaps ==
  {<<>>, << <<"d2", "u2">> >>, << <<"d2", "u1">>, <<"d1", "u1">> >>}

CompleteFrames ==
     {[NoFrame EXCEPT !.type = "complete",
                      !.sources = [present |-> TRUE, entries |-> m]] :
         m \in SourceMaps}
  \cup {[NoFrame EXCEPT !.type = "complete"]}

ErrorFrames ==
  {[NoFrame EXCEPT !.type = "error", !.message = "m"],
   [NoFrame EXCEPT !.type = "error", !.message = ""],
   [NoFrame EXCEPT !.error = "e"]}

MixedFrames ==
  {[NoFrame EXCEPT !.text = "a", !.error = "e"],
   [NoFrame EXCEPT !.type = "citation", !.text = "b",
                   !.sourceId = "d1", !.sourceUrl = "u1"],
   [NoFrame EXCEPT !.type = "complete", !.text = "a"]}

OtherFrames == {NoFrame, [NoFrame EXCEPT !.type = "ping"]}

\* Payloads that are no JSON object: text that is not JSON, and "null".
UnparsableFrames ==
  {[NoFrame EXCEPT !.json = "invalid"], [NoFrame EXCEPT !.json = "null"]}

Frames ==
  TextFrames \cup CitationFrames \cup CompleteFrames \cup ErrorFrames
    \cup MixedFrames \cup OtherFrames

(***************************************************************************)
(* State                                                                   *)
(***************************************************************************)
VARIABLES
  \* Layout.jsx: React state
  messages, availableSources, currentDocumentIndex, wsConnection,
  isConnected, isConnecting, connectionError, aiRespondingMessageId,
  selectedModel, selectedSearchMethod, config, configLoading,
  \* Layout.jsx: environment of the component
  configFetch,          \* the fetch of /config.json: "pending" or "settled"
  wsReadyState,         \* the socket of the connect effect:
                        \* "NONE" (not created), "CONNECTING", "OPEN", "CLOSED"
  capturedAiId,         \* aiRespondingMessageId as closed over by ws.onmessage
  capturedSources,      \* availableSources as closed over by ws.onmessage
  outbox,               \* frames handed to ws.send that the socket transmits
  now,                  \* the value Date.now() returns
  \* websocket.js: module state and environment
  socket,               \* the module's socket: 0 for null, else an index
                        \* into sockets
  sockets,              \* readyState of every WebSocket the module created
  messageCallback,      \* the registered handler, or Null
  reconnectTimers,      \* the delays of the pending setTimeout calls
  wsSent,               \* frames transmitted by sendChatMessage
  wsDelivered,          \* number of frames handed to messageCallback
  \* DocumentList.jsx: React state, ref and props
  documents, loading, error, isPolling, pollingIntervalRef, apiUrl,
  \* DocumentList.jsx: environment of the component
  mounted,              \* the component is mounted
  pollDeps,             \* [apiUrl, isPolling] of the polling effect's last
                        \* run; <<>> before the first
  docsDeps,             \* [isPolling] of the status effect's last run
  docsDirty,            \* setDocuments was called since that run
  intervals,            \* the armed setInterval timers, each with what its
                        \* fetchDocuments closure captured
  requests,             \* the status requests in flight, in issue order
  \* DocumentList.jsx: document links
  cloudFrontDomain,     \* the cloudFrontDomain prop
  clickedDocument,      \* the s3Url of the record the user clicks
  selectedDocument,     \* what onSelectDocument was called with
  \* history of the run, read only by the properties
  citationSeen,         \* a citation frame was processed since the last send
  terminalFetched,      \* a fetch returned an all-terminal list and resume
                        \* was not called since
  last                  \* the handler that ran last, and its input

layoutVars ==
  <<messages, availableSources, currentDocumentIndex, wsConnection,
    isConnected, isConnecting, connectionError, aiRespondingMessageId,
    selectedModel, selectedSearchMethod, config, configLoading,
    configFetch, wsReadyState, capturedAiId, capturedSources, outbox, now,
    citationSeen>>

socketVars ==
  <<socket, sockets, messageCallback, reconnectTimers, wsSent, wsDelivered>>

pollerVars ==
  <<documents, loading, error, isPolling, pollingIntervalRef, apiUrl,
    mounted, pollDeps, docsDeps, docsDirty, intervals, requests,
    terminalFetched>>

urlVars == <<cloudFrontDomain, clickedDocument, selectedDocument>>

vars == <<layoutVars, socketVars, pollerVars, urlVars, last>>

LayoutInit ==
  /\ messages = <<>>
  /\ availableSources = <<>>
  /\ currentDocumentIndex = 0
  /\ wsConnection = Null
  /\ isConnected = FALSE
  /\ isConnecting = TRUE
  /\ connectionError = Null
  /\ aiRespondingMessageId = NoId
  /\ selectedModel = "amazon.nova-pro-v1:0"
  /\ selectedSearchMethod = "opensearch"
  /\ config = NoConfig
  /\ configLoading = TRUE
  /\ configFetch = "pending"
  /\ wsReadyState = "NONE"
  /\ capturedAiId = NoId
  /\ capturedSources = <<>>
  /\ outbox = <<>>
  /\ now = 0
  /\ citationSeen = FALSE

SocketInit ==
  /\ socket = 0
  /\ sockets = <<>>
  /\ messageCallback = Null
  /\ reconnectTimers = <<>>
  /\ wsSent = <<>>
  /\ wsDelivered = 0

NoDeps == <<>>

PollerInit ==
  /\ documents = <<>>
  /\ loading = TRUE
  /\ error = Null
  /\ isPolling = TRUE
  /\ pollingIntervalRef = 0
  /\ apiUrl = "api"
  /\ mounted = TRUE
  /\ pollDeps = NoDeps
  /\ docsDeps = NoDeps
  /\ docsDirty = FALSE
  /\ intervals = {}
  /\ requests = <<>>
  /\ terminalFetched = FALSE

\* Strings of the document links are sequences of tokens: "/" is the
\* separator, "s3:" the scheme, "b" and "k" stand for runs of other
\* characters.  A value that may be undefined is <<>> when it is, and
\* <<string>> when it is not.
UrlTokens == {"s3:", "/", "b", "k"}

UrlStrings ==
  UNION {[1..n -> UrlTokens] : n \in 0..MaxUrlLen}

NoUrl == <<>>

S3Urls == {NoUrl} \cup {<<u>> : u \in UrlStrings}

CloudFrontDomains == {<<>>, << <<>> >>, << <<"d">> >>}

NoDocument == <<>>

\* No record is clicked; the domain is configured.
UrlInit ==
  /\ cloudFrontDomain = << <<"d">> >>
  /\ clickedDocument = NoUrl
  /\ selectedDocument = NoDocument

Init ==
  /\ LayoutInit
  /\ SocketInit
  /\ PollerInit
  /\ UrlInit
  /\ last = [op |-> "init", arg |-> Null, n |-> 0]

\* The document list shows a record with some s3Url, under some domain.
DocumentShownInit ==
  /\ LayoutInit
  /\ SocketInit
  /\ PollerInit
  /\ cloudFrontDomain \in CloudFrontDomains
  /\ clickedDocument \in S3Urls
  /\ selectedDocument = NoDocument
  /\ last = [op |-> "init", arg |-> Null, n |-> 0]

(***************************************************************************)
(* Layout.jsx: pure parts of the handlers                                  *)
(***************************************************************************)
\* Which screen Layout renders; the chat, the selectors and the navigation
\* buttons exist only on the main screen.
MainScreenShown ==
  /\ ~(configLoading \/ (isConnecting /\ connectionError = Null))
  /\ connectionError = Null

\* The text of a frame, looking at the top-level text field first.
TextContentTextFirst(data) ==
  IF Truthy(data.text) THEN data.text
  ELSE IF data.type = "text" /\ Truthy(data.content) THEN data.content
  ELSE IF Truthy(data.outputText) THEN data.outputText
  ELSE Null

\* The text of a frame, "from wherever it might be in the response".
TextContent(data) ==
  IF data.type = "text" /\ Truthy(data.content) THEN data.content
  ELSE IF Truthy(data.text) THEN data.text
  ELSE IF Truthy(data.outputText) THEN data.outputText
  ELSE Null

\* The updater passed to setMessages for a frame with text: aiId is the
\* aiRespondingMessageId the handler's closure holds.
\* The new ai message alone, without the history.
MessagesAfterTextAlone(prevMessages, aiId, textContent, newMessageId) ==
  <<[id |-> newMessageId, text |-> textContent, sender |-> "ai"]>>

MessagesAfterText(prevMessages, aiId, textContent, newMessageId) ==
  IF aiId # NoId
    THEN [i \in 1..Len(prevMessages) |->
            IF IdOf(prevMessages[i].id) = aiId
              THEN [prevMessages[i] EXCEPT !.text = @ \o textContent]
              ELSE prevMessages[i]]
    ELSE Append(prevMessages,
                [id |-> newMessageId, text |-> textContent, sender |-> "ai"])

\* Array.prototype.findIndex on source ids: 0-based, -1 when absent.
FindIndex(sources, id) ==
  IF \E i \in 1..Len(sources) : sources[i].id = id
    THEN (CHOOSE i \in 1..Len(sources) :
            /\ sources[i].id = id
            /\ \A j \in 1..(i - 1) : sources[j].id # id) - 1
    ELSE 0 - 1

IsCitation(data) == data.type = "citation" /\ Truthy(data.sourceUrl)

NewSource(id, url) == [id |-> id, url |-> url, title |-> "Source " \o id]

\* The source list after the citation branch; seen is the availableSources
\* the handler's closure holds, prev the current state.
SourcesAfterCitation(prev, seen, data) ==
  IF FindIndex(seen, data.sourceId) >= 0
    THEN prev
    ELSE Append(prev, NewSource(data.sourceId, data.sourceUrl))

IndexAfterCitation(prev, seen, data) ==
  IF FindIndex(seen, data.sourceId) >= 0
    THEN FindIndex(seen, data.sourceId)
    ELSE Len(prev)

IsComplete(data) == data.type = "complete"

\* The condition under which a complete frame installs its sources map.
UsesCompleteSources(data, seen) ==
  /\ data.sources.present
  /\ Len(data.sources.entries) > 0
  /\ Len(seen) = 0

\* The sources of the map, last entry first.
CompleteSourcesReversed(data) ==
  [i \in 1..Len(data.sources.entries) |->
     NewSource(data.sources.entries[Len(data.sources.entries) + 1 - i][1],
               data.sources.entries[Len(data.sources.entries) + 1 - i][2])]

\* Object.entries(data.sources).map(([id, url]) => ...)
CompleteSources(data) ==
  [i \in 1..Len(data.sources.entries) |->
     NewSource(data.sources.entries[i][1], data.sources.entries[i][2])]

IsError(data) ==
  Truthy(data.error) \/ (data.type = "error" /\ Truthy(data.message))

ErrorMsg(data) == IF Truthy(data.error) THEN data.error ELSE data.message

MessagesAfterErrorReplacingLast(prev, data, id) ==
  LET m == [id |-> id, text |-> "Error: " \o ErrorMsg(data),
            sender |-> "system"]
  IN  IF prev = <<>> THEN <<m>> ELSE [prev EXCEPT ![Len(prev)] = m]

\* The updater passed to setMessages for an error frame.
MessagesAfterError(prev, data, id) ==
  Append(prev, [id |-> id, text |-> "Error: " \o ErrorMsg(data),
                sender |-> "system"])

\* A frame that carries the query alone.
OutboundFrameQueryOnly(message) == [query |-> message]

OutboundFrame(message) ==
  [query |-> message, modelArn |-> selectedModel,
   searchMethod |-> selectedSearchMethod]

Did(op, arg, n) == last' = [op |-> op, arg |-> arg, n |-> n]

\* A handler of one component leaves the other components alone.
LayoutDid(op, arg, n) ==
  Did(op, arg, n) /\ UNCHANGED <<socketVars, pollerVars, urlVars>>

SocketDid(op, arg, n) ==
  Did(op, arg, n) /\ UNCHANGED <<layoutVars, pollerVars, urlVars>>

PollerDid(op, arg, n) ==
  Did(op, arg, n) /\ UNCHANGED <<layoutVars, socketVars, urlVars>>

UrlDid(op, arg, n) ==
  Did(op, arg, n) /\ UNCHANGED <<layoutVars, socketVars, pollerVars>>

(***************************************************************************)
(* Layout.jsx: the configuration load and the connect effect               *)
(***************************************************************************)
\* loadConfig, the fetch answered with an OK response and valid JSON.
LoadConfigOk ==
  /\ configFetch = "pending"
  /\ configFetch' = "settled"
  /\ config' = <<ConfigData>>
  /\ configLoading' = FALSE
  /\ LayoutDid("loadConfigOk", Null, 0)
  /\ UNCHANGED <<messages, availableSources, currentDocumentIndex,
                 wsConnection, isConnected, isConnecting, connectionError,
                 aiRespondingMessageId, selectedModel, selectedSearchMethod,
                 wsReadyState, capturedAiId, capturedSources, outbox, now,
                 citationSeen>>

\* loadConfig, the catch branch: the fetch rejected, the response was not
\* OK, or its body was not JSON.
LoadConfigFail ==
  /\ configFetch = "pending"
  /\ configFetch' = "settled"
  /\ connectionError' = "Failed to load application configuration."
  /\ configLoading' = FALSE
  /\ isConnecting' = FALSE
  /\ LayoutDid("loadConfigFail", Null, 0)
  /\ UNCHANGED <<messages, availableSources, currentDocumentIndex,
                 wsConnection, isConnected, aiRespondingMessageId,
                 selectedModel, selectedSearchMethod, config, wsReadyState,
                 capturedAiId, capturedSources, outbox, now, citationSeen>>

ConnectGuardIgnoringConfig == ~configLoading

\* The guard of the connect effect.
ConnectGuard == ~(configLoading \/ config = NoConfig)

\* The connect effect: it runs when [config, configLoading] changed, and
\* creates the socket and its handlers, which close over the state of the
\* render the effect belongs to.
ConnectEffect ==
  /\ wsReadyState = "NONE"
  /\ configFetch = "settled"
  /\ ConnectGuard
  /\ wsReadyState' = "CONNECTING"
  /\ capturedAiId' = aiRespondingMessageId
  /\ capturedSources' = availableSources
  /\ LayoutDid("connect", Null, 0)
  /\ UNCHANGED <<messages, availableSources, currentDocumentIndex,
                 wsConnection, isConnected, isConnecting, connectionError,
                 aiRespondingMessageId, selectedModel, selectedSearchMethod,
                 config, configLoading, configFetch, outbox, now,
                 citationSeen>>

(***************************************************************************)
(* Layout.jsx: the socket's handlers                                       *)
(***************************************************************************)
OnOpen ==
  /\ wsReadyState = "CONNECTING"
  /\ wsReadyState' = "OPEN"
  /\ isConnected' = TRUE
  /\ isConnecting' = FALSE
  /\ wsConnection' = "ws"
  /\ LayoutDid("open", Null, 0)
  /\ UNCHANGED <<messages, availableSources, currentDocumentIndex,
                 connectionError, aiRespondingMessageId, selectedModel,
                 selectedSearchMethod, config, configLoading, configFetch,
                 capturedAiId, capturedSources, outbox, now, citationSeen>>

\* aiRespondingMessageId after a frame.  The id of a new ai message is set
\* from inside the setMessages updater, which React runs either at once or
\* at the next render: after a frame that also completes or fails the turn,
\* either write may be the last one.
AiIdsAfterFrame(data, seenAiId, newMessageId) ==
  LET created == TextContent(data) # Null /\ seenAiId = NoId
      cleared == IsComplete(data) \/ IsError(data)
  IN  IF created /\ cleared THEN {NoId, IdOf(newMessageId)}
      ELSE IF created THEN {IdOf(newMessageId)}
      ELSE IF cleared THEN {NoId}
      ELSE {aiRespondingMessageId}

MessagesAfterFrame(data, seenAiId) ==
  LET afterText ==
        IF TextContent(data) # Null
          THEN MessagesAfterText(messages, seenAiId, TextContent(data), now)
          ELSE messages
  IN  IF IsError(data) THEN MessagesAfterError(afterText, data, now)
      ELSE afterText

SourcesAfterFrame(data, seen) ==
  IF IsCitation(data) THEN SourcesAfterCitation(availableSources, seen, data)
  ELSE IF IsComplete(data) /\ UsesCompleteSources(data, seen)
    THEN CompleteSources(data)
  ELSE availableSources

IndexAfterFrame(data, seen) ==
  IF IsCitation(data) THEN IndexAfterCitation(availableSources, seen, data)
  ELSE IF IsComplete(data) /\ UsesCompleteSources(data, seen) THEN 0
  ELSE currentDocumentIndex

\* JSON.parse(event.data) throws a SyntaxError, or returns null and
\* data.type throws a TypeError: the handler ends there, with an uncaught
\* exception.
Throws(data) == data.json # "object"

\* ws.onmessage
OnMessage(data) ==
  /\ wsReadyState = "OPEN"
  /\ IF Throws(data)
       THEN /\ UNCHANGED <<messages, aiRespondingMessageId,
                           availableSources, currentDocumentIndex,
                           citationSeen>>
            /\ LayoutDid("messageThrew", data.json, 0)
       ELSE /\ Len(MessagesAfterFrame(data, capturedAiId)) <= MaxMessages
            /\ Len(SourcesAfterFrame(data, capturedSources)) <= MaxSources
            /\ messages' = MessagesAfterFrame(data, capturedAiId)
            /\ aiRespondingMessageId' \in
                 AiIdsAfterFrame(data, capturedAiId, now)
            /\ availableSources' = SourcesAfterFrame(data, capturedSources)
            /\ currentDocumentIndex' = IndexAfterFrame(data, capturedSources)
            /\ citationSeen' = (citationSeen \/ IsCitation(data))
            /\ LayoutDid("message", data.type, 0)
  /\ UNCHANGED <<wsConnection, isConnected, isConnecting, connectionError,
                 selectedModel, selectedSearchMethod, config, configLoading,
                 configFetch, wsReadyState, capturedAiId, capturedSources,
                 outbox, now>>

\* ws.onclose with the active id left as it is.
AiIdAfterCloseKept == aiRespondingMessageId

\* setAiRespondingMessageId(null) of ws.onclose and ws.onerror.
AiIdAfterClose == NoId

\* ws.onclose, after a close that no error precedes.
OnClose ==
  /\ wsReadyState = "OPEN"
  /\ wsReadyState' = "CLOSED"
  /\ isConnected' = FALSE
  /\ isConnecting' = FALSE
  /\ aiRespondingMessageId' = AiIdAfterClose
  /\ LayoutDid("close", Null, IF aiRespondingMessageId = NoId THEN 0 ELSE 1)
  /\ UNCHANGED <<messages, availableSources, currentDocumentIndex,
                 wsConnection, connectionError, selectedModel,
                 selectedSearchMethod, config, configLoading, configFetch,
                 capturedAiId, capturedSources, outbox, now, citationSeen>>

\* A failed connection: the browser fires error and then close in one task,
\* so ws.onerror and ws.onclose run back to back.
OnErrorThenClose ==
  /\ wsReadyState \in {"CONNECTING", "OPEN"}
  /\ wsReadyState' = "CLOSED"
  /\ connectionError' = "Failed to connect to the server."
  /\ isConnected' = FALSE
  /\ isConnecting' = FALSE
  /\ aiRespondingMessageId' = AiIdAfterClose
  /\ LayoutDid("error", Null, IF aiRespondingMessageId = NoId THEN 0 ELSE 1)
  /\ UNCHANGED <<messages, availableSources, currentDocumentIndex,
                 wsConnection, selectedModel, selectedSearchMethod, config,
                 configLoading, configFetch, capturedAiId, capturedSources,
                 outbox, now, citationSeen>>

(***************************************************************************)
(* Layout.jsx: what the user does on the main screen                       *)
(***************************************************************************)
SendAcceptedIgnoringIsConnected == wsConnection # Null

\* The guard of handleSendMessage.
SendAccepted == wsConnection # Null /\ isConnected

SourcesAfterSendKept == availableSources

\* setAvailableSources([]) of handleSendMessage.
SourcesAfterSend == <<>>

HandleSendMessage(message) ==
  /\ MainScreenShown
  /\ IF SendAccepted
       THEN /\ Len(messages) < MaxMessages
            /\ aiRespondingMessageId' = NoId
            /\ availableSources' = SourcesAfterSend
            /\ currentDocumentIndex' = 0
            /\ messages' = Append(messages,
                  [id |-> now, text |-> message, sender |-> "user"])
            /\ outbox' = IF wsReadyState = "OPEN"
                           THEN Append(outbox, OutboundFrame(message))
                           ELSE outbox
            /\ citationSeen' = FALSE
            /\ LayoutDid("send", message, Len(availableSources))
       ELSE /\ LayoutDid("sendIgnored", message, 0)
            /\ UNCHANGED <<messages, availableSources, currentDocumentIndex,
                           aiRespondingMessageId, outbox, citationSeen>>
  /\ UNCHANGED <<wsConnection, isConnected, isConnecting, connectionError,
                 selectedModel, selectedSearchMethod, config, configLoading,
                 configFetch, wsReadyState, capturedAiId, capturedSources,
                 now>>

\* One step forward or back, without wrapping.
IndexAfterNavigateNoWrap(direction, prevIndex, length) ==
  IF direction = "next" THEN prevIndex + 1 ELSE prevIndex - 1

\* The updater navigateDocument passes to setCurrentDocumentIndex.
IndexAfterNavigate(direction, prevIndex, length) ==
  IF direction = "next" THEN (prevIndex + 1) % length
  ELSE IF prevIndex = 0 THEN length - 1 ELSE prevIndex - 1

NavigateDocument(direction) ==
  /\ MainScreenShown
  /\ currentDocumentIndex' =
       IF Len(availableSources) = 0 THEN currentDocumentIndex
       ELSE IndexAfterNavigate(direction, currentDocumentIndex,
                               Len(availableSources))
  /\ LayoutDid("navigate", direction, 0)
  /\ UNCHANGED <<messages, availableSources, wsConnection, isConnected,
                 isConnecting, connectionError, aiRespondingMessageId,
                 selectedModel, selectedSearchMethod, config, configLoading,
                 configFetch, wsReadyState, capturedAiId, capturedSources,
                 outbox, now, citationSeen>>

HandleModelChange(modelId) ==
  /\ MainScreenShown
  /\ selectedModel' = modelId
  /\ LayoutDid("model", Null, 0)
  /\ UNCHANGED <<messages, availableSources, currentDocumentIndex,
                 wsConnection, isConnected, isConnecting, connectionError,
                 aiRespondingMessageId, selectedSearchMethod, config,
                 configLoading, configFetch, wsReadyState, capturedAiId,
                 capturedSources, outbox, now, citationSeen>>

HandleSearchMethodChange(methodId) ==
  /\ MainScreenShown
  /\ selectedSearchMethod' = methodId
  /\ LayoutDid("method", Null, 0)
  /\ UNCHANGED <<messages, availableSources, currentDocumentIndex,
                 wsConnection, isConnected, isConnecting, connectionError,
                 aiRespondingMessageId, selectedModel, config, configLoading,
                 configFetch, wsReadyState, capturedAiId, capturedSources,
                 outbox, now, citationSeen>>

\* Time passes: Date.now() returns a later value.
Tick ==
  /\ now < MaxNow
  /\ now' = now + 1
  /\ UNCHANGED <<last, socketVars, pollerVars, urlVars>>
  /\ UNCHANGED <<messages, availableSources, currentDocumentIndex,
                 wsConnection, isConnected, isConnecting, connectionError,
                 aiRespondingMessageId, selectedModel, selectedSearchMethod,
                 config, configLoading, configFetch, wsReadyState,
                 capturedAiId, capturedSources, outbox, citationSeen>>

\* The component's next-state relation, for given sets of inbound frames
\* and of selectable models and search methods.
LayoutNextOn(frames, models, methods) ==
  \/ LoadConfigOk
  \/ LoadConfigFail
  \/ ConnectEffect
  \/ OnOpen
  \/ \E data \in frames : OnMessage(data)
  \/ OnClose
  \/ OnErrorThenClose
  \/ \E message \in UserTexts : HandleSendMessage(message)
  \/ \E direction \in {"next", "prev"} : NavigateDocument(direction)
  \/ \E modelId \in models : HandleModelChange(modelId)
  \/ \E methodId \in methods : HandleSearchMethodChange(methodId)
  \/ Tick

\* Frames of the message assembler: text, errors, end of turn.
StreamFrames ==
  TextFrames \cup ErrorFrames \cup OtherFrames
    \cup {f \in CompleteFrames \cup MixedFrames : ~IsCitation(f) /\
             Len(f.sources.entries) = 0}

\* Frames of the citation correlator: citations and end of turn.
CorrelatorFrames == CitationFrames \cup CompleteFrames

\* One frame of each kind: a whole turn with text and citations.
SessionFrames ==
  {[NoFrame EXCEPT !.type = "text", !.content = "a"],
   [NoFrame EXCEPT !.type = "citation", !.sourceId = "d1",
                   !.sourceUrl = "u1"],
   [NoFrame EXCEPT !.type = "citation", !.sourceId = "d2",
                   !.sourceUrl = "u2"],
   [NoFrame EXCEPT !.type = "complete"],
   [NoFrame EXCEPT !.type = "complete",
                   !.sources = [present |-> TRUE,
                                entries |-> << <<"d2", "u2">> >>]]}

\* The session fed with whole turns.
SessionSpec ==
  Init /\ [][LayoutNextOn(SessionFrames, {"amazon.nova-pro-v1:0"},
                          {"opensearch"})]_vars

\* Frames with every combination of the three text fields: absent, empty
\* or set.
ExtractionFrames ==
  {[NoFrame EXCEPT !.type = t, !.content = c, !.text = x,
                   !.outputText = o] :
     t \in {Null, "text", "ping"}, c \in {Null, "", "a"},
     x \in {Null, "", "b"}, o \in {Null, "", "c"}}

\* The session fed with frames that carry text in any of its places.
ExtractionSpec ==
  Init /\ [][LayoutNextOn(ExtractionFrames, {"amazon.nova-pro-v1:0"},
                          {"opensearch"})]_vars

\* Frames of no known shape, among frames of a turn.
ParserFrames ==
  OtherFrames \cup UnparsableFrames
    \cup {[NoFrame EXCEPT !.type = "text", !.content = "a"],
          [NoFrame EXCEPT !.type = "citation", !.sourceId = "d1",
                          !.sourceUrl = "u1"],
          [NoFrame EXCEPT !.type = "citation", !.sourceId = "d1"],
          [NoFrame EXCEPT !.type = "error", !.message = ""],
          [NoFrame EXCEPT !.message = "m"]}

\* The session fed with frames of no known shape.
ParserSpec ==
  Init /\ [][LayoutNextOn(ParserFrames, {"amazon.nova-pro-v1:0"},
                          {"opensearch"})]_vars

\* The session fed with the assembler's frames.
StreamSpec ==
  Init /\ [][LayoutNextOn(StreamFrames, Models, SearchMethods)]_vars

\* The session fed with the correlator's frames.
CorrelatorSpec ==
  Init /\ [][LayoutNextOn(CorrelatorFrames, {"amazon.nova-pro-v1:0"},
                                {"opensearch"})]_vars

(***************************************************************************)
(* websocket.js                                                            *)
(***************************************************************************)
ReconnectDelay == 5000

\* new WebSocket(wsUrl) and the assignment of its handlers.
OpenNewSocket ==
  /\ Len(sockets) < MaxSockets
  /\ sockets' = Append(sockets, "CONNECTING")
  /\ socket' = Len(sockets) + 1

\* connectWebSocket, called by the application.
ConnectWebSocket ==
  /\ OpenNewSocket
  /\ SocketDid("connectWebSocket", Null, 0)
  /\ UNCHANGED <<messageCallback, reconnectTimers, wsSent, wsDelivered>>

\* connectWebSocket, called by a reconnect timer that expires.
ReconnectTimerFires ==
  /\ reconnectTimers # <<>>
  /\ reconnectTimers' = Tail(reconnectTimers)
  /\ OpenNewSocket
  /\ SocketDid("reconnectTimer", Null, Head(reconnectTimers))
  /\ UNCHANGED <<messageCallback, wsSent, wsDelivered>>

\* socket.onopen of socket i
SocketOnOpen(i) ==
  /\ sockets[i] = "CONNECTING"
  /\ sockets' = [sockets EXCEPT ![i] = "OPEN"]
  /\ SocketDid("socketOpen", Null, i)
  /\ UNCHANGED <<socket, messageCallback, reconnectTimers, wsSent,
                 wsDelivered>>

\* socket.onmessage of socket i
SocketOnMessage(i) ==
  /\ sockets[i] = "OPEN"
  /\ wsDelivered < MaxWsFrames
  /\ wsDelivered' = IF messageCallback # Null THEN wsDelivered + 1
                    ELSE wsDelivered
  /\ SocketDid("socketMessage", Null, i)
  /\ UNCHANGED <<socket, sockets, messageCallback, reconnectTimers, wsSent>>

TimersAfterClose(timers) == Append(timers, ReconnectDelay)

\* socket.onclose of socket i
SocketOnClose(i) ==
  /\ sockets[i] \in {"CONNECTING", "OPEN"}
  /\ sockets' = [sockets EXCEPT ![i] = "CLOSED"]
  /\ reconnectTimers' = TimersAfterClose(reconnectTimers)
  /\ SocketDid("socketClose", Null, i)
  /\ UNCHANGED <<socket, messageCallback, wsSent, wsDelivered>>

RegisterMessageHandler(callback) ==
  /\ messageCallback' = callback
  /\ SocketDid("registerMessageHandler", callback, 0)
  /\ UNCHANGED <<socket, sockets, reconnectTimers, wsSent, wsDelivered>>

\* The guard of sendChatMessage.
ChatSendAllowed == socket # 0 /\ sockets[socket] = "OPEN"

SendChatMessage(message) ==
  /\ Len(wsSent) < MaxWsFrames
  /\ wsSent' = IF ChatSendAllowed
                 THEN Append(wsSent, [action |-> "sendMessage",
                                      content |-> message])
                 ELSE wsSent
  /\ SocketDid("sendChatMessage", message, 0)
  /\ UNCHANGED <<socket, sockets, messageCallback, reconnectTimers,
                 wsDelivered>>

SocketNext ==
  \/ ConnectWebSocket
  \/ ReconnectTimerFires
  \/ \E i \in 1..Len(sockets) : SocketOnOpen(i)
  \/ \E i \in 1..Len(sockets) : SocketOnMessage(i)
  \/ \E i \in 1..Len(sockets) : SocketOnClose(i)
  \/ RegisterMessageHandler("handler")
  \/ \E message \in UserTexts : SendChatMessage(message)

\* The socket module alone.
SocketSpec == Init /\ [][SocketNext]_vars

\* The socket module, with timers that expire.
SocketFairSpec == SocketSpec /\ WF_vars(ReconnectTimerFires)

(***************************************************************************)
(* DocumentList.jsx: the document status poller.  A document record is     *)
(* reduced to its status.                                                  *)
(***************************************************************************)
TERMINAL_STATES == {"COMPLETED", "ERROR"}

DocLists ==
  {<<>>, <<"PROCESSING">>, <<"COMPLETED">>, <<"COMPLETED", "ERROR">>,
   <<"COMPLETED", "UPLOADED">>}

ApiUrls == {"", "api"}

\* What a status request can come back with: a failure (the fetch rejects
\* or the response is not OK), or a JSON body with or without "documents".
FetchOutcomes ==
     {[ok |-> FALSE, hasDocuments |-> FALSE, documents |-> <<>>],
      [ok |-> TRUE, hasDocuments |-> FALSE, documents |-> <<>>]}
  \cup {[ok |-> TRUE, hasDocuments |-> TRUE, documents |-> d] : d \in DocLists}

\* docs.every(doc => TERMINAL_STATES.includes(doc.status))
EveryTerminal(docs) == \A i \in 1..Len(docs) : docs[i] \in TERMINAL_STATES

\* The test of the status effect.
AllDocumentsProcessed(docs) == Len(docs) > 0 /\ EveryTerminal(docs)

Request(url, trigger) ==
  [url |-> url, trigger |-> trigger, superseded |-> FALSE]

\* The synchronous part of fetchDocuments, up to the fetch call.  url and
\* docsEmpty are the apiUrl and documents.length === 0 of the closure that
\* runs; trigger says who called it.
RequestsAfterFetchCall(reqs, url, trigger) ==
  IF Truthy(url) THEN Append(reqs, Request(url, trigger)) ELSE reqs

LoadingAfterFetchCall(url, docsEmpty) ==
  IF Truthy(url) THEN docsEmpty ELSE loading

ErrorAfterFetchCall(url) == IF Truthy(url) THEN Null ELSE error

\* The handle setInterval returns: one no armed timer has.
NewTimerId(timers) ==
  CHOOSE n \in 1..(Cardinality(timers) + 1) : \A t \in timers : t.id # n

\* A cleanup that clears nothing.
IntervalsAfterCleanupKept == intervals

\* The cleanup of the polling effect.
IntervalsAfterCleanup ==
  IF pollingIntervalRef # 0
    THEN {t \in intervals : t.id # pollingIntervalRef}
    ELSE intervals

\* The polling effect with the dependency array [apiUrl] only.
PollEffectPendingIgnoringIsPolling ==
  IF pollDeps = NoDeps THEN TRUE ELSE pollDeps[1] # apiUrl

PollEffectPending == pollDeps = NoDeps \/ pollDeps # <<apiUrl, isPolling>>

DocsEffectPending ==
  docsDeps = NoDeps \/ docsDirty \/ docsDeps # <<isPolling>>

\* An effect that arms the interval whatever the flag.
ArmsIntervalAlways == TRUE

\* The polling effect's "if (isPolling)".
ArmsInterval == isPolling

\* React commits a render of the mounted component and runs the effects
\* whose dependencies changed: first the cleanup of the polling effect's
\* last run, then the polling effect, then the status effect.
RunEffects ==
  /\ mounted
  /\ PollEffectPending \/ DocsEffectPending
  /\ IF PollEffectPending
       THEN /\ Len(RequestsAfterFetchCall(requests, apiUrl, "effect"))
                 <= MaxInFlight
            /\ requests' = RequestsAfterFetchCall(requests, apiUrl, "effect")
            /\ loading' = LoadingAfterFetchCall(apiUrl, documents = <<>>)
            /\ error' = ErrorAfterFetchCall(apiUrl)
            /\ IF ArmsInterval
                 THEN /\ Cardinality(IntervalsAfterCleanup) < MaxTimers
                      /\ intervals' = IntervalsAfterCleanup \cup
                           {[id |-> NewTimerId(IntervalsAfterCleanup),
                             url |-> apiUrl,
                             docsEmpty |-> (documents = <<>>)]}
                      /\ pollingIntervalRef' =
                           NewTimerId(IntervalsAfterCleanup)
                 ELSE /\ intervals' = IntervalsAfterCleanup
                      /\ pollingIntervalRef' = 0
            /\ pollDeps' = <<apiUrl, isPolling>>
       ELSE UNCHANGED <<requests, loading, error, intervals,
                        pollingIntervalRef, pollDeps>>
  /\ IF DocsEffectPending
       THEN /\ isPolling' =
                 IF AllDocumentsProcessed(documents) /\ isPolling
                   THEN FALSE ELSE isPolling
            /\ docsDeps' = <<isPolling>>
            /\ docsDirty' = FALSE
       ELSE UNCHANGED <<isPolling, docsDeps, docsDirty>>
  /\ PollerDid("runEffects", Null, Len(requests') - Len(requests))
  /\ UNCHANGED <<documents, apiUrl, mounted, terminalFetched>>

\* An armed interval fires and calls the fetchDocuments it captured.
IntervalFires(t) ==
  /\ t \in intervals
  /\ Len(requests) < MaxInFlight
  /\ requests' = RequestsAfterFetchCall(requests, t.url, "timer")
  /\ loading' = LoadingAfterFetchCall(t.url, t.docsEmpty)
  /\ error' = ErrorAfterFetchCall(t.url)
  /\ PollerDid("intervalFires", t.url, 0)
  /\ UNCHANGED <<documents, isPolling, pollingIntervalRef, apiUrl, mounted,
                 pollDeps, docsDeps, docsDirty, intervals, terminalFetched>>

\* The requests left in flight once request i has resolved; when its
\* response was stored, the requests issued before it are out of date.
RequestsAfterResolve(reqs, i, stored) ==
  [j \in 1..(Len(reqs) - 1) |->
     IF j < i THEN [reqs[j] EXCEPT !.superseded = @ \/ stored]
     ELSE reqs[j + 1]]

\* "if (allDocumentsProcessed && data.documents.length > 0)" for a body
\* that has a documents array.
StopsPolling(docs) == EveryTerminal(docs) /\ Len(docs) > 0

\* A failed request throws before setDocuments and leaves the list alone.
DocumentsAfterResolveCleared(outcome) ==
  IF outcome.ok THEN outcome.documents ELSE <<>>

\* setDocuments(data.documents || []), reached only when the response is
\* OK.
DocumentsAfterResolve(outcome) ==
  IF outcome.ok THEN outcome.documents ELSE documents

\* The rest of fetchDocuments, once the fetch of request i has settled.
\* A body without "documents" stores [] and then throws on
\* data.documents.length, which the catch turns into an error message.
\* React drops the state updates of an unmounted component.
FetchResolves(i, outcome) ==
  /\ i \in 1..Len(requests)
  /\ requests' = RequestsAfterResolve(requests, i, mounted /\ outcome.ok)
  /\ IF mounted
       THEN /\ documents' = DocumentsAfterResolve(outcome)
            /\ docsDirty' = (docsDirty \/ outcome.ok)
            /\ isPolling' =
                 IF outcome.ok /\ outcome.hasDocuments
                      /\ StopsPolling(outcome.documents)
                   THEN FALSE ELSE isPolling
            /\ error' =
                 IF ~outcome.ok THEN "Failed to load documents: request"
                 ELSE IF ~outcome.hasDocuments
                   THEN "Failed to load documents: TypeError"
                 ELSE error
            /\ loading' = FALSE
            /\ terminalFetched' =
                 (terminalFetched \/
                    (outcome.ok /\ outcome.hasDocuments
                       /\ AllDocumentsProcessed(outcome.documents)))
       ELSE UNCHANGED <<documents, docsDirty, isPolling, error, loading,
                        terminalFetched>>
  /\ PollerDid("fetchResolves", requests[i].trigger, i)
  /\ UNCHANGED <<pollingIntervalRef, apiUrl, mounted, pollDeps, docsDeps,
                 intervals>>

\* The refresh button: enabled unless loading.
HandleRefresh ==
  /\ mounted
  /\ ~loading
  /\ Len(requests) < MaxInFlight
  /\ requests' = RequestsAfterFetchCall(requests, apiUrl, "manual")
  /\ loading' = LoadingAfterFetchCall(apiUrl, documents = <<>>)
  /\ error' = ErrorAfterFetchCall(apiUrl)
  /\ PollerDid("handleRefresh", Null, 0)
  /\ UNCHANGED <<documents, isPolling, pollingIntervalRef, apiUrl, mounted,
                 pollDeps, docsDeps, docsDirty, intervals, terminalFetched>>

\* The resume button: the committed render shows it when polling is off
\* and there are documents; React flushes the pending effects before it
\* handles the click.
HandleResumePolling ==
  /\ mounted
  /\ ~PollEffectPending /\ ~DocsEffectPending
  /\ ~isPolling /\ Len(documents) > 0
  /\ isPolling' = TRUE
  /\ terminalFetched' = FALSE
  /\ PollerDid("handleResumePolling", Null, 0)
  /\ UNCHANGED <<documents, loading, error, pollingIntervalRef, apiUrl,
                 mounted, pollDeps, docsDeps, docsDirty, intervals, requests>>

\* The parent renders the component with another apiUrl.
ChangeApiUrl(url) ==
  /\ mounted
  /\ url # apiUrl
  /\ apiUrl' = url
  /\ PollerDid("changeApiUrl", url, 0)
  /\ UNCHANGED <<documents, loading, error, isPolling, pollingIntervalRef,
                 mounted, pollDeps, docsDeps, docsDirty, intervals, requests,
                 terminalFetched>>

\* The component unmounts: the polling effect's cleanup runs.
Unmount ==
  /\ mounted
  /\ pollDeps # NoDeps
  /\ mounted' = FALSE
  /\ intervals' = IntervalsAfterCleanup
  /\ pollingIntervalRef' = 0
  /\ PollerDid("unmount", Null, 0)
  /\ UNCHANGED <<documents, loading, error, isPolling, apiUrl, pollDeps,
                 docsDeps, docsDirty, requests, terminalFetched>>

PollerNext ==
  \/ RunEffects
  \/ \E t \in intervals : IntervalFires(t)
  \/ \E i \in 1..Len(requests) :
       \E outcome \in FetchOutcomes : FetchResolves(i, outcome)
  \/ HandleRefresh
  \/ HandleResumePolling
  \/ \E url \in ApiUrls : ChangeApiUrl(url)
  \/ Unmount

\* The poller alone.
PollerSpec == Init /\ [][PollerNext]_vars

(***************************************************************************)
(* DocumentList.jsx: document links                                        *)
(***************************************************************************)
\* !value for a value that may be undefined or the empty string.
Falsy(value) == value = <<>> \/ value[1] = <<>>

S3Scheme == <<"s3:", "/", "/">>

\* String.prototype.startsWith
StartsWith(str, prefix) ==
  Len(str) >= Len(prefix) /\ SubSeq(str, 1, Len(prefix)) = prefix

\* The positions where pattern occurs in str.
Occurrences(str, pattern) ==
  {i \in 1..(Len(str) - Len(pattern) + 1) :
     SubSeq(str, i, i + Len(pattern) - 1) = pattern}

Min(S) == CHOOSE x \in S : \A y \in S : x <= y

\* String.prototype.replace with a string pattern: the first occurrence.
ReplaceFirst(str, pattern, by) ==
  IF Occurrences(str, pattern) = {} THEN str
  ELSE LET i == Min(Occurrences(str, pattern))
       IN  SubSeq(str, 1, i - 1) \o by
             \o SubSeq(str, i + Len(pattern), Len(str))

\* String.prototype.split with a one-character separator.
RECURSIVE Split(_, _)
Split(str, sep) ==
  IF Occurrences(str, <<sep>>) = {} THEN <<str>>
  ELSE LET i == Min(Occurrences(str, <<sep>>))
       IN  <<SubSeq(str, 1, i - 1)>>
             \o Split(SubSeq(str, i + 1, Len(str)), sep)

\* Array.prototype.join
RECURSIVE Join(_, _)
Join(parts, sep) ==
  IF parts = <<>> THEN <<>>
  ELSE IF Len(parts) = 1 THEN parts[1]
  ELSE parts[1] \o <<sep>> \o Join(Tail(parts), sep)

\* The parts with the bucket name among them.
SliceFrom0(parts) == parts

\* parts.slice(1)
SliceFrom1(parts) == Tail(parts)

\* getDocumentUrl; the result is a string.
GetDocumentUrl(s3Url) ==
  IF Falsy(s3Url) \/ Falsy(cloudFrontDomain) THEN <<"#">>
  ELSE IF StartsWith(s3Url[1], S3Scheme)
    THEN LET parts == Split(ReplaceFirst(s3Url[1], S3Scheme, <<>>), "/")
             key == Join(SliceFrom1(parts), "/")
         IN  <<"https:", "/", "/">> \o cloudFrontDomain[1] \o <<"/">>
               \o key
  ELSE s3Url[1]

\* handleSelectDocument, for the record the user clicks (once).
HandleSelectDocument ==
  /\ selectedDocument = NoDocument
  /\ selectedDocument' =
       <<[s3Url |-> clickedDocument, url |-> GetDocumentUrl(clickedDocument)]>>
  /\ UrlDid("selectDocument", Null, 0)
  /\ UNCHANGED <<cloudFrontDomain, clickedDocument>>

UrlNext == HandleSelectDocument

\* The document links alone, for every reference and domain.
UrlSpec == DocumentShownInit /\ [][UrlNext]_vars

\* The session with every step it can take taken eventually.
LayoutFairSpec ==
  /\ CorrelatorSpec
  /\ WF_vars(LayoutNextOn(CorrelatorFrames, {"amazon.nova-pro-v1:0"},
                          {"opensearch"}))

(***************************************************************************)
(* Properties of the chat session                                          *)
(***************************************************************************)
LastMessage == messages[Len(messages)]

\* C1 (single active stream): a text frame that arrives while an ai
\* message is being built appends its content to that message and creates
\* no second ai message; the first text frame of a turn creates the one ai
\* message.
C1_SingleActiveStream ==
  [][\A data \in TextFrames :
       (OnMessage(data) /\ TextContent(data) # Null) =>
         IF aiRespondingMessageId = NoId
           THEN /\ Len(messages') = Len(messages) + 1
                /\ messages'[Len(messages')].sender = "ai"
                /\ messages'[Len(messages')].text = TextContent(data)
           ELSE /\ Len(messages') = Len(messages)
                /\ \E i \in 1..Len(messages) :
                     /\ IdOf(messages[i].id) = aiRespondingMessageId
                     /\ messages'[i].text =
                          messages[i].text \o TextContent(data)]_vars

\* C2 (citation dedup): a citation frame whose sourceId is already in the
\* source list leaves the list as it is and sets the index to the position
\* where that id was first added.
C2_CitationDedup ==
  [][\A data \in CitationFrames :
       (OnMessage(data) /\ IsCitation(data)
          /\ FindIndex(availableSources, data.sourceId) >= 0) =>
         /\ availableSources' = availableSources
         /\ currentDocumentIndex' =
              FindIndex(availableSources, data.sourceId)]_vars

\* C3 (citation precedence): a complete frame with a non-empty sources map
\* that follows a citation frame of the same turn leaves the source list
\* as the citations built it.
C3_CitationPrecedence ==
  [][\A data \in CompleteFrames :
       (OnMessage(data) /\ citationSeen /\ Len(data.sources.entries) > 0) =>
         availableSources' = availableSources]_vars

\* C4 (turn isolation): a send accepted while the connection is open
\* leaves the source list empty and the index 0, and transmits the request.
C4_TurnIsolation ==
  [][\A message \in UserTexts :
       (HandleSendMessage(message) /\ wsReadyState = "OPEN") =>
         /\ availableSources' = <<>>
         /\ currentDocumentIndex' = 0
         /\ Len(outbox') = Len(outbox) + 1]_vars

\* C4 witness: a send has just cleared a source list left over from the
\* turn before.
C4_Witness ==
  /\ last.op = "send"
  /\ last.n > 0
  /\ availableSources = <<>>
  /\ currentDocumentIndex = 0
  /\ Len(outbox) >= 2

\* The text an error frame of the wire format carries.
WireErrorText(data) == IF data.error # Null THEN data.error ELSE data.message

ErrorFrameEffect(data) ==
  /\ aiRespondingMessageId' = NoId
  /\ messages' = Append(messages,
         [id |-> now, text |-> "Error: " \o WireErrorText(data),
          sender |-> "system"])
  /\ wsReadyState' = "OPEN"
  /\ wsConnection' # Null /\ isConnected'

\* C5 as stated (error frame aborts the turn): every frame
\* {type: "error", message} or {error} clears the active id, keeps the
\* history, appends one system message "Error: " + message and leaves the
\* connection open.
C5_ErrorFrameAborts ==
  [][\A data \in ErrorFrames : OnMessage(data) => ErrorFrameEffect(data)]_vars

\* C5 as amended: the same, for error frames whose message (or error) text
\* is not empty.
C5_NonEmptyErrorFrameAborts ==
  [][\A data \in ErrorFrames :
       (OnMessage(data) /\ WireErrorText(data) # "") =>
         ErrorFrameEffect(data)]_vars

\* C5 witness: an error frame has arrived while an ai message was being
\* built; that message is still there, followed by the system message.
C5_Witness ==
  /\ last.op = "message"
  /\ last.arg = "error"
  /\ Len(messages) >= 2
  /\ LastMessage.sender = "system"
  /\ LastMessage.text = "Error: m"
  /\ messages[Len(messages) - 1].sender = "ai"
  /\ aiRespondingMessageId = NoId
  /\ isConnected

\* C6 (no send unless open): while the socket is not open nothing is
\* transmitted, and a send attempted then changes neither the history, the
\* source list, the index nor the active id.
C6_NoSendUnlessOpen ==
  [][wsReadyState # "OPEN" =>
       /\ outbox' = outbox
       /\ \A message \in UserTexts :
            HandleSendMessage(message) =>
              UNCHANGED <<messages, availableSources, currentDocumentIndex,
                          aiRespondingMessageId>>]_vars

\* C6 witness: a send was attempted on a closed connection, with a history
\* and a source list to lose.
C6_Witness ==
  /\ last.op = "sendIgnored"
  /\ wsReadyState = "CLOSED"
  /\ messages # <<>>
  /\ availableSources # <<>>
  /\ currentDocumentIndex > 0

\* C7 (reconnect on close): every close of the session's connection is
\* followed by a new connect attempt.
C7_ReconnectOnClose ==
  (wsReadyState = "CLOSED") ~> (wsReadyState = "CONNECTING")

\* C8 (only a configuration failure is fatal): after a transport error or
\* close the session returns to the open state, where a send is accepted.
C8_SessionRecovers ==
  (wsReadyState = "CLOSED") ~>
     (wsReadyState = "OPEN" /\ MainScreenShown /\ SendAccepted)

ConfigLoadFailed == configFetch = "settled" /\ config = NoConfig

\* C9 (configuration gates the connection): a socket exists only once the
\* configuration is loaded; a failed load is final: the load is not
\* retried, no socket is ever created and the error screen stays.
C9_ConfigGatesConnection ==
  /\ [](wsReadyState # "NONE" => (config # NoConfig /\ ~configLoading))
  /\ [](ConfigLoadFailed =>
          /\ wsReadyState = "NONE"
          /\ connectionError # Null
          /\ ~MainScreenShown)
  /\ [][ConfigLoadFailed => ConfigLoadFailed']_vars

\* C9 witness: the configuration load has failed.
C9_Witness ==
  /\ last.op = "loadConfigFail"
  /\ ConfigLoadFailed
  /\ connectionError # Null
  /\ wsReadyState = "NONE"

\* C20 (append-only history): no step removes or reorders messages or
\* changes a message's id or sender; a message's text changes only by a
\* fragment appended to it while it is the ai message the active id
\* points at, so a message whose turn is over keeps its text.
C20_AppendOnlyHistory ==
  [][/\ Len(messages') >= Len(messages)
     /\ \A i \in 1..Len(messages) :
          /\ messages'[i].id = messages[i].id
          /\ messages'[i].sender = messages[i].sender
          /\ messages'[i].text # messages[i].text =>
               /\ IdOf(messages[i].id) = aiRespondingMessageId
               /\ messages[i].sender = "ai"
               /\ \E fragment \in Fragments :
                    messages'[i].text = messages[i].text \o fragment]_vars

\* C20 witness: a text frame has arrived in a second turn; the ai message
\* of the first turn and the user message are as they were.
C20_Witness ==
  /\ last.op = "message"
  /\ last.arg = "text"
  /\ Len(messages) = 3
  /\ messages[1].sender = "ai" /\ messages[1].text = "a"
  /\ messages[2].sender = "user"
  /\ messages[3].sender = "ai" /\ messages[3].text = "b"
  /\ aiRespondingMessageId = IdOf(messages[3].id)

\* C21 (close and error events): ws.onclose and ws.onerror set the active
\* id to null and leave the history, the source list and the index as they
\* are.
C21_CloseKeepsHistory ==
  [][(OnClose \/ OnErrorThenClose) =>
       /\ aiRespondingMessageId' = NoId
       /\ UNCHANGED <<messages, availableSources,
                      currentDocumentIndex>>]_vars

\* C21 witness: the connection was closed in the middle of a turn, with an
\* ai message under construction and two sources shown.
C21_Witness ==
  /\ last.op \in {"close", "error"}
  /\ last.n = 1
  /\ aiRespondingMessageId = NoId
  /\ LastMessage.sender = "ai"
  /\ Len(availableSources) = 2
  /\ currentDocumentIndex = 1

\* C22 (exclusive frame classification): one inbound frame has the effect
\* of one variant only: it appends at most one message, and it does not
\* both change the history and change the source list.
C22_ExclusiveClassification ==
  [][\A data \in Frames :
       OnMessage(data) =>
         /\ Len(messages') <= Len(messages) + 1
         /\ ~(messages' # messages
                /\ availableSources' # availableSources)]_vars

\* The first of content (when type = "text"), text and output.text that is
\* not null.
FirstNonNullText(data) ==
  IF data.type = "text" /\ data.content # Null THEN data.content
  ELSE IF data.text # Null THEN data.text
  ELSE IF data.outputText # Null THEN data.outputText
  ELSE Null

\* The first of them that is neither null nor empty.
FirstNonEmptyText(data) ==
  IF data.type = "text" /\ data.content \notin {Null, ""} THEN data.content
  ELSE IF data.text \notin {Null, ""} THEN data.text
  ELSE IF data.outputText \notin {Null, ""} THEN data.outputText
  ELSE Null

\* This step uses t as the text of the frame: it appends an ai message
\* with text t, or appends t to a message of the history; with no text
\* (Null) it leaves the history alone.
UsesText(t) ==
  IF t = Null THEN messages' = messages
  ELSE \/ /\ Len(messages') = Len(messages) + 1
          /\ SubSeq(messages', 1, Len(messages)) = messages
          /\ messages'[Len(messages')].sender = "ai"
          /\ messages'[Len(messages')].text = t
       \/ /\ Len(messages') = Len(messages)
          /\ \E i \in 1..Len(messages) :
               /\ messages[i].sender = "ai"
               /\ messages'[i].text = messages[i].text \o t

\* C23 as stated (text extraction priority): the text a frame contributes
\* is the first non-null value among content (when type = "text"), text
\* and output.text; with none, the frame contributes no text and creates
\* no ai message.
C23_TextPriority ==
  [][\A data \in ExtractionFrames :
       OnMessage(data) => UsesText(FirstNonNullText(data))]_vars

\* C23 as amended: the same with "non-empty" for "non-null": an empty
\* string is passed over like an absent field.
C23_TextPriorityNonEmpty ==
  [][\A data \in ExtractionFrames :
       OnMessage(data) => UsesText(FirstNonEmptyText(data))]_vars

\* C23 witness: a frame whose only usable text was output.text has
\* created an ai message with it.
C23_Witness ==
  /\ last.op = "message"
  /\ Len(messages) >= 2
  /\ LastMessage.sender = "ai"
  /\ LastMessage.text = "c"
  /\ messages[1].text = "a"

\* A frame that is none of text fragment, citation, turn complete, error.
Unrecognized(data) ==
  \/ data.json # "object"
  \/ /\ FirstNonEmptyText(data) = Null
     /\ ~(data.type = "citation" /\ data.sourceUrl \notin {Null, ""})
     /\ data.type # "complete"
     /\ data.error \in {Null, ""}
     /\ ~(data.type = "error" /\ data.message \notin {Null, ""})

DroppedSilently ==
  /\ last'.op # "messageThrew"
  /\ UNCHANGED <<messages, aiRespondingMessageId, availableSources,
                 currentDocumentIndex, wsReadyState, wsConnection,
                 isConnected, isConnecting, connectionError>>

\* C24 (unrecognized frames): a frame of no known shape raises nothing and
\* leaves the history, the active id, the source list, the index and the
\* connection state as they are.
C24_UnrecognizedDropped ==
  [][\A data \in ParserFrames :
       (OnMessage(data) /\ Unrecognized(data)) => DroppedSilently]_vars

\* A frame that parses to a JSON object of no known shape is dropped
\* silently.
UnrecognizedObjectDropped ==
  [][\A data \in ParserFrames :
       (OnMessage(data) /\ Unrecognized(data) /\ data.json = "object") =>
         DroppedSilently]_vars

\* C25 (bulk citation map): a complete frame with a non-empty sources map
\* that arrives while the source list is empty makes the list one source
\* {id, url, title: "Source " + id} per entry, in the map's order, and the
\* index 0; a complete frame with an empty or absent map changes neither.
C25_BulkCitationMap ==
  [][\A data \in CompleteFrames :
       OnMessage(data) =>
         LET entries == data.sources.entries
         IN  /\ (data.sources.present /\ entries # <<>>
                   /\ availableSources = <<>>) =>
                  /\ availableSources' =
                       [i \in 1..Len(entries) |->
                          [id |-> entries[i][1], url |-> entries[i][2],
                           title |-> "Source " \o entries[i][1]]]
                  /\ currentDocumentIndex' = 0
             /\ (~data.sources.present \/ entries = <<>>) =>
                  UNCHANGED <<availableSources,
                              currentDocumentIndex>>]_vars

\* C25 witness: a turn without citations has ended with a complete frame
\* whose map {d2: u1, d1: u1} became the source list.
C25_Witness ==
  /\ last.op = "message"
  /\ last.arg = "complete"
  /\ ~citationSeen
  /\ availableSources =
       <<[id |-> "d2", url |-> "u1", title |-> "Source d2"],
         [id |-> "d1", url |-> "u1", title |-> "Source d1"]>>
  /\ currentDocumentIndex = 0
  /\ Len(messages) > 0

\* C27 (source index in range): the index is 0 while the source list is
\* empty and otherwise a position of the list; navigation leaves the list
\* alone, does nothing on an empty list, and otherwise moves one position
\* forward or back, wrapping around at both ends.
C27_IndexInRange ==
  /\ [](IF availableSources = <<>>
          THEN currentDocumentIndex = 0
          ELSE currentDocumentIndex \in 0..(Len(availableSources) - 1))
  /\ [][\A direction \in {"next", "prev"} :
          NavigateDocument(direction) =>
            /\ availableSources' = availableSources
            /\ currentDocumentIndex' =
                 IF availableSources = <<>> THEN currentDocumentIndex
                 ELSE IF direction = "next"
                   THEN IF currentDocumentIndex = Len(availableSources) - 1
                          THEN 0 ELSE currentDocumentIndex + 1
                 ELSE IF currentDocumentIndex = 0
                        THEN Len(availableSources) - 1
                        ELSE currentDocumentIndex - 1]_vars

\* C27 witness: "next" on the last of two sources has wrapped around to
\* the first.
C27_Witness ==
  /\ last.op = "navigate"
  /\ last.arg = "next"
  /\ Len(availableSources) = 2
  /\ currentDocumentIndex = 0

(***************************************************************************)
(* Properties of websocket.js                                              *)
(***************************************************************************)
\* sendChatMessage transmits only through an open socket.
SocketNoSendUnlessOpen ==
  [][(socket = 0 \/ sockets[socket] # "OPEN") => wsSent' = wsSent]_vars

\* Every close of a socket of websocket.js arms one reconnect timer, with
\* the same delay each time.
SocketCloseSchedulesReconnect ==
  /\ [][\A i \in 1..Len(sockets) :
          (sockets[i] # "CLOSED" /\ sockets'[i] = "CLOSED") =>
            reconnectTimers' = Append(reconnectTimers, ReconnectDelay)]_vars
  /\ [](\A k \in 1..Len(reconnectTimers) :
          reconnectTimers[k] = ReconnectDelay)

(***************************************************************************)
(* Properties of the poller                                                *)
(***************************************************************************)
\* This step issues a status request that no user action asked for.
IssuesAutomaticRequest ==
  /\ Len(requests') > Len(requests)
  /\ requests'[Len(requests')].trigger \in {"effect", "timer"}

\* C10 (poller termination): once a fetch has returned a non-empty list of
\* terminal records, and until resume is called, the poller issues no
\* request of its own (the endpoint being the one it last polled).
C10_PollerTermination ==
  [][(terminalFetched /\ mounted /\ pollDeps # NoDeps
        /\ pollDeps[1] = apiUrl) => ~IssuesAutomaticRequest]_vars

\* C11 (poller resume): resume() turns the polling flag on, which leaves
\* the polling effect pending; the effect run that follows (the endpoint
\* being set) issues an automatic status request.
C11_ResumeIssuesRequest ==
  /\ [][HandleResumePolling => (isPolling' /\ PollEffectPending')]_vars
  /\ [][(RunEffects /\ pollDeps # NoDeps /\ pollDeps[2] = FALSE
           /\ isPolling /\ Truthy(apiUrl)) => IssuesAutomaticRequest]_vars

\* C11 witness: the poller had stopped on an all-terminal list, resume was
\* called, and the effect run after it has issued a request.
C11_Witness ==
  /\ last.op = "runEffects"
  /\ last.n = 1
  /\ ~terminalFetched
  /\ AllDocumentsProcessed(documents)
  /\ pollDeps = <<apiUrl, TRUE>>
  /\ requests[Len(requests)].trigger = "effect"

\* The committed render has run its effects: none is pending.
Settled == mounted /\ ~PollEffectPending /\ ~DocsEffectPending

\* The periodic timer of the polling effect is armed.
TimerArmed ==
  pollingIntervalRef # 0 /\ \E t \in intervals : t.id = pollingIntervalRef

\* The list is all terminal and nobody has resumed since the fetch that
\* found it so.
StoppedByTerminalGate == AllDocumentsProcessed(documents) /\ terminalFetched

\* C12 (poller timer invariant): in every settled state of the mounted
\* poller the periodic timer is armed if and only if some record is not
\* terminal, or the list is empty, or resume was called after the stop.
C12_TimerInvariant == [](Settled => (TimerArmed <=> ~StoppedByTerminalGate))

\* C13 (no stale overwrite): the response of a request that was issued
\* before one whose response is already stored leaves the document list
\* as the later response set it.
C13_NoStaleOverwrite ==
  [][\A i \in 1..Len(requests) : \A outcome \in FetchOutcomes :
       (FetchResolves(i, outcome) /\ requests[i].superseded) =>
         documents' = documents]_vars

\* C14 (fetch failure keeps polling): when a status request of the mounted
\* poller fails, an error message is recorded, the document list, the
\* polling flag and the interval stay as they were, and a tick of an armed
\* interval (its endpoint being set) still issues a request.
C14_FetchFailureKeepsPolling ==
  /\ [][\A i \in 1..Len(requests) : \A outcome \in FetchOutcomes :
          (FetchResolves(i, outcome) /\ ~outcome.ok /\ mounted) =>
            /\ error' = "Failed to load documents: request"
            /\ documents' = documents
            /\ isPolling' = isPolling
            /\ intervals' = intervals
            /\ pollingIntervalRef' = pollingIntervalRef]_vars
  /\ [][\A t \in intervals :
          (IntervalFires(t) /\ Truthy(t.url)) =>
            /\ Len(requests') = Len(requests) + 1
            /\ requests'[Len(requests')] = Request(t.url, "timer")]_vars

\* C14 witness: a request has failed while a list was shown and the
\* interval was armed; the list is still shown and the interval still
\* armed.
C14_Witness ==
  /\ last.op = "fetchResolves"
  /\ error = "Failed to load documents: request"
  /\ documents # <<>>
  /\ isPolling
  /\ TimerArmed

\* The positions in the history of the messages whose id is the given one.
MessagesWithId(id) == {i \in 1..Len(messages) : IdOf(messages[i].id) = id}

\* C15 (active-stream pointer): the active id is null or the id of exactly
\* one message of the history, and that message was sent by the ai.
C15_ActivePointer ==
  [](aiRespondingMessageId # NoId =>
       /\ Cardinality(MessagesWithId(aiRespondingMessageId)) = 1
       /\ \A i \in MessagesWithId(aiRespondingMessageId) :
            messages[i].sender = "ai")

\* The user messages of the history.
UserMessages == {i \in 1..Len(messages) : messages[i].sender = "user"}

\* C16 (one outbound frame per turn): a send accepted on the open
\* connection appends one user message with the given text and transmits
\* one frame with the query, the selected model and the selected search
\* method; no other step transmits, so there are as many frames sent as
\* user messages.
C16_OneFramePerTurn ==
  /\ [][\A message \in UserTexts :
          (HandleSendMessage(message) /\ SendAccepted) =>
            /\ Len(messages') = Len(messages) + 1
            /\ \A i \in 1..Len(messages) : messages'[i] = messages[i]
            /\ messages'[Len(messages')].sender = "user"
            /\ messages'[Len(messages')].text = message
            /\ outbox' = Append(outbox,
                  [query |-> message, modelArn |-> selectedModel,
                   searchMethod |-> selectedSearchMethod])]_vars
  /\ [][outbox' # outbox =>
          \E message \in UserTexts :
            HandleSendMessage(message) /\ SendAccepted]_vars
  /\ [](Len(outbox) = Cardinality(UserMessages))

\* C16 witness: two turns were sent, the second after the user had picked
\* another model and another search method.
C16_Witness ==
  /\ last.op = "send"
  /\ Len(outbox) = 2
  /\ outbox[2] = [query |-> "q", modelArn |-> "other-model",
                  searchMethod |-> "contextual_retrieval"]
  /\ outbox[1].modelArn = "amazon.nova-pro-v1:0"
  /\ Cardinality(UserMessages) = 2

\* C18 (manual fetch re-arms polling): on an all-terminal list, once a
\* manual refresh was made, or resume was called after the stop, the
\* settled poller has its periodic timer armed.
C18_ManualFetchRearms ==
  []((/\ Settled
      /\ Truthy(apiUrl)
      /\ AllDocumentsProcessed(documents)
      /\ (last.op = "handleRefresh" \/ ~terminalFetched)) => TimerArmed)

\* The sockets of websocket.js that are open or connecting: each has an
\* onclose handler that will schedule a reconnect.
LiveSockets ==
  {i \in 1..Len(sockets) : sockets[i] \in {"CONNECTING", "OPEN"}}

\* C19 (single connection): at most one socket of websocket.js is open or
\* connecting at any time.
C19_SingleConnection == [](Cardinality(LiveSockets) <= 1)

\* C26 (disposal safety): once the poller is unmounted no interval is
\* armed and no request is issued any more, and a fetch that resolves then
\* changes neither the document list, the error message nor the polling
\* flag.
C26_DisposalSafety ==
  /\ [](~mounted => intervals = {})
  /\ [][~mounted =>
          /\ Len(requests') <= Len(requests)
          /\ UNCHANGED <<documents, error, isPolling>>]_vars

\* C26 witness: a request was in flight when the poller was unmounted with
\* its interval armed; it has resolved since.
C26_Witness ==
  /\ ~mounted
  /\ last.op = "fetchResolves"
  /\ requests = <<>>
  /\ isPolling
  /\ documents = <<>>
  /\ pollDeps = <<"api", TRUE>>

\* C28 (at most one polling timer): at most one interval is armed at any
\* time, it is the one whose handle the poller holds, and once the effects
\* have run with the polling flag false none is armed.
C28_AtMostOneTimer ==
  /\ [](Cardinality(intervals) <= 1)
  /\ [](\A t \in intervals : t.id = pollingIntervalRef)
  /\ []((Settled /\ ~isPolling) => intervals = {})

\* C28 witness: the poller stopped, was resumed, which armed a new
\* interval, and stopped again: no interval is left.
C28_Witness ==
  /\ Settled
  /\ last.op = "runEffects"
  /\ ~isPolling
  /\ ~terminalFetched
  /\ AllDocumentsProcessed(documents)
  /\ intervals = {}
  /\ pollingIntervalRef = 0

\* C29 (response without a documents field): an OK response whose body
\* has no documents field makes the list empty, records no error message
\* and leaves the polling flag and the interval as they are.
C29_MissingDocumentsField ==
  [][\A i \in 1..Len(requests) : \A outcome \in FetchOutcomes :
       (FetchResolves(i, outcome) /\ mounted /\ outcome.ok
          /\ ~outcome.hasDocuments) =>
         /\ documents' = <<>>
         /\ error' = error
         /\ isPolling' = isPolling
         /\ intervals' = intervals]_vars

(***************************************************************************)
(* Properties of the document links                                        *)
(***************************************************************************)
\* The positions of the slashes that follow "s3://" in str.
SlashesAfterScheme(str) == {i \in 4..Len(str) : str[i] = "/"}

\* str is s3://<bucket>/<key...>
IsS3Form(str) == StartsWith(str, S3Scheme) /\ SlashesAfterScheme(str) # {}

\* What follows the slash that ends the bucket name.
S3Key(str) == SubSeq(str, Min(SlashesAfterScheme(str)) + 1, Len(str))

CloudFrontUrl(key) ==
  <<"https:", "/", "/">> \o cloudFrontDomain[1] \o <<"/">> \o key

\* C17 as stated (document URL resolution): with the domain configured,
\* a reference s3://<bucket>/<key...> resolves to
\* https://<cloudfrontDomain>/<key...>, and a reference of any other form
\* resolves to itself.
C17_DocumentUrlResolution ==
  [](\A i \in 1..Len(selectedDocument) :
       LET ref == selectedDocument[i].s3Url
           url == selectedDocument[i].url
       IN  (ref # NoUrl /\ ~Falsy(cloudFrontDomain)) =>
             url = IF IsS3Form(ref[1]) THEN CloudFrontUrl(S3Key(ref[1]))
                   ELSE ref[1])

\* C17 as amended: a missing or empty reference, and any reference while
\* the domain is missing or empty, resolves to "#"; otherwise a reference
\* that starts with s3:// resolves to https://<cloudfrontDomain>/ followed
\* by what follows the first slash after the bucket name (by nothing when
\* there is no such slash), and any other reference resolves to itself.
C17_DocumentUrlResolutionAmended ==
  [](\A i \in 1..Len(selectedDocument) :
       LET ref == selectedDocument[i].s3Url
           url == selectedDocument[i].url
       IN  url = IF Falsy(ref) \/ Falsy(cloudFrontDomain) THEN <<"#">>
                 ELSE IF IsS3Form(ref[1]) THEN CloudFrontUrl(S3Key(ref[1]))
                 ELSE IF StartsWith(ref[1], S3Scheme) THEN CloudFrontUrl(<<>>)
                 ELSE ref[1])

\* C17 witness: s3://b/k/k was resolved to https://d/k/k.
C17_Witness ==
  /\ last.op = "selectDocument"
  /\ selectedDocument =
       <<[s3Url |-> <<(S3Scheme \o <<"b", "/", "k", "/", "k">>)>>,
          url |-> <<"https:", "/", "/", "d", "/", "k", "/", "k">>]>>

=============================================================================
